---- MODULE Spec2Model ----
(***************************************************************************)
(* A model of src/src/main.rs: a B-tree with insert, search and delete.    *)
(* A Node is a record; the tree is the nested record owned by `root`.      *)
(* Vec indices are kept 0-based as in the source and converted on access.  *)
(***************************************************************************)
EXTENDS Integers, Sequences, FiniteSets, TLC

\* Bounds of the model.
MaxKey == 4
MaxBranch == 2
MaxSize == 4
MaxHeight == 4
\* The width of usize in the model, in bits.
UsizeBits == 16

Keys == 1..MaxKey
BranchFactors == 1..MaxBranch
\* Every branch_factor BTree::new can be called with, 0 included.
AnyBranchFactors == 0..MaxBranch

\* size_of::<T>() of the keys (i32 in the tests)
KeyBytes == 4
\* size_of::<Node<T>>(): two Vec (3 words each), an Option<Rc<..>> and a usize
NodeBytes == 8 * (UsizeBits \div 8)

VARIABLES
    root,      \* BTree.root
    props,     \* BTree.props
    op,        \* the last call: [name, key]
    ret,       \* what the last call returned: "unit", "true", "false", or "panic"
    present,   \* reference set: add on insert, remove on delete
    dup        \* TRUE once some insert(k) was called with k already present

vars == <<root, props, op, ret, present, dup>>

-----------------------------------------------------------------------------
\* Option<T>
None == <<>>
Some(x) == <<x>>

\* Vec<T>, 0-based
At(v, i) == v[i + 1]
VecInsert(v, i, x) == SubSeq(v, 1, i) \o <<x>> \o SubSeq(v, i + 1, Len(v))
VecRemove(v, i) == SubSeq(v, 1, i) \o SubSeq(v, i + 2, Len(v))
\* v.split_off(at): v keeps [0, at), the result is [at, len)
SplitKeep(v, at) == SubSeq(v, 1, at)
SplitOff(v, at) == SubSeq(v, at + 1, Len(v))
\* usize arithmetic: a - b panics when overflow checks are compiled in and
\* b > a, and wraps around otherwise.
isize_MAX == 2^(UsizeBits - 1) - 1
sub_overflows(a, b) == b > a
wrapping_sub(a, b) == (a - b + 2^UsizeBits) % 2^UsizeBits
\* Vec::with_capacity(capacity) panics ("capacity overflow") when the
\* allocation would exceed isize::MAX bytes.
with_capacity_panics(capacity, elem_bytes) == capacity * elem_bytes > isize_MAX

\* iter().position(|e| e == key): the first index holding key, -1 for None
RECURSIVE position_from(_, _, _)
position_from(v, i, key) ==
    IF i >= Len(v) THEN -1
    ELSE IF At(v, i) = key THEN i
    ELSE position_from(v, i + 1, key)
position(v, key) == position_from(v, 0, key)

-----------------------------------------------------------------------------
\* Node
Node_new(degree, _keys, _children, _parent, _parent_index) ==
    [keys |-> IF _keys = None THEN <<>> ELSE _keys[1],
     children |-> IF _children = None THEN <<>> ELSE _children[1],
     parent |-> _parent,
     parent_index |-> _parent_index]

\* Mutant of Node_new_panics: the Vecs created without a capacity
\* (Vec::new()), so only the subtraction can panic.
Node_new_panics_no_capacity(degree, _keys, _children, overflow_checks) ==
    _keys = None /\ overflow_checks /\ sub_overflows(degree, 1)

\* Whether Node::new panics: in degree - 1, or in one of its Vec::with_capacity.
Node_new_panics(degree, _keys, _children, overflow_checks) ==
    \/ /\ _keys = None
       /\ \/ overflow_checks /\ sub_overflows(degree, 1)
          \/ with_capacity_panics(wrapping_sub(degree, 1), KeyBytes)
    \/ /\ _children = None
       /\ with_capacity_panics(degree, NodeBytes)

is_leaf(node) == Len(node.children) = 0

has_right_sibling(node) ==
    IF node.parent = None THEN FALSE
    ELSE Len(node.parent[1].children) > node.parent_index + 1

has_left_sibling(node) ==
    IF node.parent = None THEN FALSE
    ELSE node.parent_index > 0

is_root(node) == node.parent = None

-----------------------------------------------------------------------------
\* BTreeProps
BTreeProps_new_panics(degree, overflow_checks) ==
    overflow_checks /\ sub_overflows(degree, 1)

BTreeProps_new(degree) ==
    [degree |-> degree,
     max_keys |-> wrapping_sub(degree, 1),
     min_keys |-> wrapping_sub(degree, 1) \div 2,
     mid_key_index |-> wrapping_sub(degree, 1) \div 2]

\* Mutant of is_maxed_out: the bound taken one too high (degree for degree - 1).
is_maxed_out_degree(self, node) == Len(node.keys) = self.degree

is_maxed_out(self, node) == Len(node.keys) = self.max_keys

can_donate_from_left_sibling(self, node) ==
    IF ~has_left_sibling(node) THEN FALSE
    ELSE IF node.parent = None THEN FALSE
    ELSE Len(At(node.parent[1].children, node.parent_index - 1).keys) > self.min_keys

can_donate_from_right_sibling(self, node) ==
    IF ~has_right_sibling(node) THEN FALSE
    ELSE IF node.parent = None THEN FALSE
    ELSE Len(At(node.parent[1].children, node.parent_index + 1).keys) > self.min_keys

\* Mutant of split_child: the children of an internal child are not split;
\* the new right sibling is created without children.
split_child_keeps_children(self, parent, child_index) ==
    LET child == At(parent.children, child_index)
        middle_key == At(child.keys, self.mid_key_index)
        tail == SplitOff(child.keys, self.mid_key_index)
        right_keys == IF Len(tail) > 0 THEN Tail(tail) ELSE <<>>
        left_child == [child EXCEPT !.keys = SplitKeep(@, self.mid_key_index)]
        new_child_node ==
            Node_new(self.degree, Some(right_keys), None,
                     child.parent, child_index + 1)
    IN  [parent EXCEPT
            !.keys = VecInsert(@, child_index, middle_key),
            !.children = VecInsert([@ EXCEPT ![child_index + 1] = left_child],
                                   child_index + 1, new_child_node)]

\* Mutant of split_child: the children are split at mid_key_index instead of
\* mid_key_index + 1.
split_child_children_at_mid(self, parent, child_index) ==
    LET child == At(parent.children, child_index)
        middle_key == At(child.keys, self.mid_key_index)
        tail == SplitOff(child.keys, self.mid_key_index)
        right_keys == IF Len(tail) > 0 THEN Tail(tail) ELSE <<>>
        right_children ==
            IF ~is_leaf(child)
            THEN Some(SplitOff(child.children, self.mid_key_index))
            ELSE None
        left_child ==
            [child EXCEPT
                !.keys = SplitKeep(@, self.mid_key_index),
                !.children = IF ~is_leaf(child)
                             THEN SplitKeep(@, self.mid_key_index)
                             ELSE @]
        new_child_node ==
            Node_new(self.degree, Some(right_keys), right_children,
                     child.parent, child_index + 1)
    IN  [parent EXCEPT
            !.keys = VecInsert(@, child_index, middle_key),
            !.children = VecInsert([@ EXCEPT ![child_index + 1] = left_child],
                                   child_index + 1, new_child_node)]

split_child(self, parent, child_index) ==
    LET child == At(parent.children, child_index)
        middle_key == At(child.keys, self.mid_key_index)
        tail == SplitOff(child.keys, self.mid_key_index)
        right_keys == IF Len(tail) > 0 THEN Tail(tail) ELSE <<>>
        right_children ==
            IF ~is_leaf(child)
            THEN Some(SplitOff(child.children, self.mid_key_index + 1))
            ELSE None
        left_child ==
            [child EXCEPT
                !.keys = SplitKeep(@, self.mid_key_index),
                !.children = IF ~is_leaf(child)
                             THEN SplitKeep(@, self.mid_key_index + 1)
                             ELSE @]
        new_child_node ==
            Node_new(self.degree, Some(right_keys), right_children,
                     child.parent, child_index + 1)
    IN  [parent EXCEPT
            !.keys = VecInsert(@, child_index, middle_key),
            !.children = VecInsert([@ EXCEPT ![child_index + 1] = left_child],
                                   child_index + 1, new_child_node)]

\* while index >= 0 && keys[index] >= key { index -= 1 }
RECURSIVE scan_ge(_, _, _)
scan_ge(keys, index, key) ==
    IF index >= 0 /\ At(keys, index) >= key
    THEN scan_ge(keys, index - 1, key)
    ELSE index

\* Mutant of scan_gt: the comparison of insert_non_full's scan (>=) used.
scan_gt_as_ge(keys, index, key) == scan_ge(keys, index, key)

\* while index >= 0 && keys[index] > key { index -= 1 }
RECURSIVE scan_gt(_, _, _)
scan_gt(keys, index, key) ==
    IF index >= 0 /\ At(keys, index) > key
    THEN scan_gt(keys, index - 1, key)
    ELSE index

RECURSIVE insert_non_full(_, _, _)
\* Mutant of insert_non_full: u_index is not moved past the key that the
\* split has just put at u_index.
insert_non_full_no_step(self, node, key) ==
    LET index == scan_ge(node.keys, Len(node.keys) - 1, key)
        u_index == index + 1
    IN  IF is_leaf(node)
        THEN [node EXCEPT !.keys = VecInsert(@, u_index, key)]
        ELSE LET maxed == is_maxed_out(self, At(node.children, u_index))
                 node1 == IF maxed THEN split_child(self, node, u_index) ELSE node
             IN  [node1 EXCEPT
                     !.children[u_index + 1] = insert_non_full(self, @, key)]

insert_non_full(self, node, key) ==
    LET index == scan_ge(node.keys, Len(node.keys) - 1, key)
        u_index == index + 1
    IN  IF is_leaf(node)
        THEN [node EXCEPT !.keys = VecInsert(@, u_index, key)]
        ELSE LET maxed == is_maxed_out(self, At(node.children, u_index))
                 node1 == IF maxed THEN split_child(self, node, u_index) ELSE node
                 u_index1 == IF maxed /\ At(node1.keys, u_index) < key
                             THEN u_index + 1
                             ELSE u_index
             IN  [node1 EXCEPT
                     !.children[u_index1 + 1] = insert_non_full(self, @, key)]

-----------------------------------------------------------------------------
\* Deletion (BTreeProps)
remove_key_from_node(node, key) ==
    LET pos == position(node.keys, key)
    IN  IF pos >= 0 THEN [node EXCEPT !.keys = VecRemove(@, pos)] ELSE node

\* The callers hold a key of the node, so position(..).unwrap() is Some here.
replace_keys(node, old_key, new_key) ==
    LET index == position(node.keys, old_key)
    IN  [node EXCEPT !.keys[index + 1] = new_key]

\* The four moves act on the node and on the Node behind its parent
\* back-reference (node.parent[1]); the result is the node, carrying the
\* parent as the move left it.
donate_from_right(node) ==
    IF node.parent = None THEN node
    ELSE LET parent == node.parent[1]
             sibling == At(parent.children, node.parent_index + 1)
             sibling_key == At(sibling.keys, 0)
             sibling1 ==
                 [sibling EXCEPT
                     !.keys = VecRemove(@, 0),
                     !.children = IF ~is_leaf(node) THEN VecRemove(@, 0) ELSE @]
             parent_key == At(parent.keys, node.parent_index)
             parent1 ==
                 [parent EXCEPT
                     !.children[node.parent_index + 2] = sibling1,
                     !.keys[node.parent_index + 1] = sibling_key]
         IN  [node EXCEPT
                 !.children = IF ~is_leaf(node)
                              THEN Append(@, At(sibling.children, 0))
                              ELSE @,
                 !.keys = Append(@, parent_key),
                 !.parent = Some(parent1)]

donate_from_left(node) ==
    IF node.parent = None THEN node
    ELSE LET parent == node.parent[1]
             sibling == At(parent.children, node.parent_index - 1)
             sibling_key == At(sibling.keys, Len(sibling.keys) - 1)
             sibling1 ==
                 [sibling EXCEPT
                     !.keys = SplitKeep(@, Len(@) - 1),
                     !.children = IF ~is_leaf(node)
                                  THEN SplitKeep(@, Len(@) - 1)
                                  ELSE @]
             parent_key == At(parent.keys, node.parent_index - 1)
             parent1 ==
                 [parent EXCEPT
                     !.children[node.parent_index] = sibling1,
                     !.keys[node.parent_index] = sibling_key]
         IN  [node EXCEPT
                 !.children = IF ~is_leaf(node)
                              THEN VecInsert(@, 0, At(sibling.children,
                                                      Len(sibling.children) - 1))
                              ELSE @,
                 !.keys = VecInsert(@, 0, parent_key),
                 !.parent = Some(parent1)]

\* merge_with_right panics on a node without parent; the only caller has
\* checked has_right_sibling, which is false for such a node.
merge_with_right(node) ==
    LET parent == node.parent[1]
        right_sibling == At(parent.children, node.parent_index + 1)
        parent1 ==
            [parent EXCEPT
                !.keys = VecRemove(@, node.parent_index),
                !.children = VecRemove(@, node.parent_index + 1)]
    IN  [node EXCEPT
            !.children = @ \o right_sibling.children,
            !.keys = @ \o right_sibling.keys,
            !.parent = Some(parent1)]

merge_with_left(node) ==
    LET parent == node.parent[1]
        left_sibling == At(parent.children, node.parent_index - 1)
        left_sibling1 ==
            [left_sibling EXCEPT
                !.keys = @ \o node.keys,
                !.children = @ \o node.children]
        parent1 ==
            [parent EXCEPT
                !.keys = VecRemove(@, node.parent_index - 1),
                !.children = VecRemove([@ EXCEPT ![node.parent_index] = left_sibling1],
                                       node.parent_index)]
    IN  [node EXCEPT
            !.keys = <<>>,
            !.children = <<>>,
            !.parent = Some(parent1)]

RECURSIVE rebalance_after_deletion(_, _)
rebalance_after_deletion(self, node) ==
    IF is_root(node) \/ Len(node.keys) >= self.min_keys THEN node
    ELSE IF can_donate_from_right_sibling(self, node) THEN donate_from_right(node)
    ELSE IF can_donate_from_left_sibling(self, node) THEN donate_from_left(node)
    ELSE IF has_right_sibling(node)
    THEN LET merged == merge_with_right(node)
         IN  [merged EXCEPT
                 !.parent = Some(rebalance_after_deletion(self, merged.parent[1]))]
    ELSE IF has_left_sibling(node)
    THEN LET merged == merge_with_left(node)
         IN  [merged EXCEPT
                 !.parent = Some(rebalance_after_deletion(self, merged.parent[1]))]
    ELSE node

\* leaf_left: while !leaf.is_leaf() { leaf = leaf.children.last_mut().unwrap() }
RECURSIVE leaf_left(_)
leaf_left(node) ==
    IF is_leaf(node) THEN node
    ELSE leaf_left(At(node.children, Len(node.children) - 1))

\* the write through the &mut reference leaf_left
RECURSIVE set_leaf_left(_, _)
set_leaf_left(node, leaf) ==
    IF is_leaf(node) THEN leaf
    ELSE [node EXCEPT !.children[Len(node.children)] = set_leaf_left(@, leaf)]

\* leaf_right: while !leaf.is_leaf() { leaf = leaf.children.first_mut().unwrap() }
RECURSIVE leaf_right(_)
leaf_right(node) ==
    IF is_leaf(node) THEN node
    ELSE leaf_right(At(node.children, 0))

\* the write through the &mut reference leaf_right
RECURSIVE set_leaf_right(_, _)
set_leaf_right(node, leaf) ==
    IF is_leaf(node) THEN leaf
    ELSE [node EXCEPT !.children[1] = set_leaf_right(@, leaf)]

\* The result is [panic, node]: panic is TRUE when the call ends in a panic
\* (position(..).unwrap() of None, or Vec::remove(0) of an empty Vec), and
\* node is then the node as the panic left it.
delete_key(self, node, key) ==
    IF is_leaf(node)
    THEN [panic |-> FALSE,
          node |-> rebalance_after_deletion(self, remove_key_from_node(node, key))]
    ELSE LET key_index == position(node.keys, key)
         IN  IF key_index < 0 THEN [panic |-> TRUE, node |-> node]
             ELSE LET left == leaf_left(At(node.children, key_index))
                      right == leaf_right(At(node.children, key_index + 1))
                  IN  IF Len(left.keys) > self.min_keys
                      THEN LET new_sep == At(left.keys, Len(left.keys) - 1)
                               left1 == rebalance_after_deletion(self,
                                   [left EXCEPT !.keys = SplitKeep(@, Len(@) - 1)])
                               node1 == [node EXCEPT !.children[key_index + 1] =
                                            set_leaf_left(@, left1)]
                           IN  [panic |-> FALSE,
                                node |-> replace_keys(node1, key, new_sep)]
                      ELSE IF Len(right.keys) = 0
                      THEN [panic |-> TRUE, node |-> node]
                      ELSE LET new_sep == At(right.keys, 0)
                               right1 == rebalance_after_deletion(self,
                                   [right EXCEPT !.keys = VecRemove(@, 0)])
                               node1 == [node EXCEPT !.children[key_index + 2] =
                                            set_leaf_right(@, right1)]
                           IN  [panic |-> FALSE,
                                node |-> replace_keys(node1, key, new_sep)]

-----------------------------------------------------------------------------
\* BTree::delete
\* The descent of delete and the call of delete_key on the node it finds:
\* [found, panic, node], node being current_node after the call.
RECURSIVE delete_descent(_, _, _)
delete_descent(self, current_node, key) ==
    LET index == scan_gt(current_node.keys, Len(current_node.keys) - 1, key)
        u_index == index + 1
    IN  IF index >= 0 /\ At(current_node.keys, u_index - 1) = key
        THEN LET r == delete_key(self, current_node, key)
             IN  [found |-> TRUE, panic |-> r.panic, node |-> r.node]
        ELSE IF is_leaf(current_node)
        THEN [found |-> FALSE, panic |-> FALSE, node |-> current_node]
        ELSE LET r == delete_descent(self, At(current_node.children, u_index), key)
             IN  [found |-> r.found, panic |-> r.panic,
                  node |-> [current_node EXCEPT !.children[u_index + 1] = r.node]]

\* Mutant of BTree_delete: the root is collapsed whether or not the key was found.
BTree_delete_collapse_always(self, r, key) ==
    LET d == delete_descent(self, r, key)
    IN  IF d.panic THEN [ret |-> "panic", root |-> d.node]
        ELSE IF Len(d.node.keys) = 0
        THEN IF Len(d.node.children) = 0
             THEN [ret |-> "panic", root |-> d.node]
             ELSE [ret |-> IF d.found THEN "true" ELSE "false",
                   root |-> At(d.node.children, Len(d.node.children) - 1)]
        ELSE [ret |-> IF d.found THEN "true" ELSE "false", root |-> d.node]

\* The result is [ret, root]: ret is "true", "false" or "panic" (then root is
\* the tree as the panic left it).
BTree_delete(self, r, key) ==
    LET d == delete_descent(self, r, key)
    IN  IF ~d.found THEN [ret |-> "false", root |-> d.node]
        ELSE IF d.panic THEN [ret |-> "panic", root |-> d.node]
        ELSE IF Len(d.node.keys) = 0
        THEN IF Len(d.node.children) = 0
             THEN [ret |-> "panic", root |-> d.node]
             ELSE [ret |-> "true",
                   root |-> At(d.node.children, Len(d.node.children) - 1)]
        ELSE [ret |-> "true", root |-> d.node]

-----------------------------------------------------------------------------
\* BTree
\* Mutant of grow_root: no new root is put above a maxed out root.
grow_root_skipped(self, r) == r

\* The root of a maxed out tree before the descent: an empty new root over
\* the old one, split at child 0.
grow_root(self, r) ==
    LET new_root == Node_new(self.degree, None, None, None, 0)
        wrapped == [new_root EXCEPT !.children = VecInsert(@, 0, r)]
    IN  split_child(self, wrapped, 0)

BTree_insert(self, r, key) ==
    IF is_maxed_out(self, r)
    THEN insert_non_full(self, grow_root(self, r), key)
    ELSE insert_non_full(self, r, key)

RECURSIVE BTree_search(_, _)
BTree_search(current_node, key) ==
    LET index == scan_gt(current_node.keys, Len(current_node.keys) - 1, key)
        u_index == index + 1
    IN  IF index >= 0 /\ At(current_node.keys, u_index - 1) = key THEN TRUE
        ELSE IF is_leaf(current_node) THEN FALSE
        ELSE BTree_search(At(current_node.children, u_index), key)

-----------------------------------------------------------------------------
\* Measures of a tree
RECURSIVE SumSeq(_)
SumSeq(s) == IF s = <<>> THEN 0 ELSE Head(s) + SumSeq(Tail(s))

RECURSIVE Size(_)
Size(node) ==
    Len(node.keys)
    + SumSeq([i \in 1..Len(node.children) |-> Size(node.children[i])])

\* Every node of the tree under node, node included.
RECURSIVE Nodes(_)
Nodes(node) ==
    {node} \cup UNION {Nodes(node.children[i]) : i \in 1..Len(node.children)}

NonRootNodes(r) == UNION {Nodes(r.children[i]) : i \in 1..Len(r.children)}

\* The keys stored in the tree under node.
RECURSIVE KeySet(_)
KeySet(node) ==
    {node.keys[i] : i \in 1..Len(node.keys)}
    \cup UNION {KeySet(node.children[i]) : i \in 1..Len(node.children)}

\* The depths at which the leaves under node lie, node being at depth.
RECURSIVE LeafDepths(_, _)
LeafDepths(node, depth) ==
    IF is_leaf(node) THEN {depth}
    ELSE UNION {LeafDepths(node.children[i], depth + 1) :
                    i \in 1..Len(node.children)}

\* Search-tree ordering of the tree under node.
RECURSIVE Ordered(_)
Ordered(node) ==
    /\ \A i \in 1..(Len(node.keys) - 1) : node.keys[i] < node.keys[i + 1]
    /\ \A i \in 1..Len(node.keys) :
          is_leaf(node) \/
            /\ i <= Len(node.children) /\ i + 1 <= Len(node.children)
            /\ \A k \in KeySet(node.children[i]) : k < node.keys[i]
            /\ \A k \in KeySet(node.children[i + 1]) : node.keys[i] < k
    /\ \A i \in 1..Len(node.children) : Ordered(node.children[i])

RECURSIVE MaxSeq(_)
MaxSeq(s) ==
    IF s = <<>> THEN 0
    ELSE LET m == MaxSeq(Tail(s)) IN IF Head(s) > m THEN Head(s) ELSE m

\* Every node under node carries a back-reference, and it is to the node that
\* holds it among its children.
RECURSIVE BackReferenced(_)
BackReferenced(node) ==
    \A i \in 1..Len(node.children) :
        LET child == node.children[i]
        IN  /\ ~is_root(child)
            /\ child.parent # None => child.parent[1].keys = node.keys
            /\ BackReferenced(child)

\* Every node under node records in parent_index its place among the
\* children of the node that holds it.
RECURSIVE Indexed(_)
Indexed(node) ==
    \A i \in 1..Len(node.children) :
        /\ node.children[i].parent_index = i - 1
        /\ Indexed(node.children[i])

\* The keys of every node under node are strictly increasing.
StrictlyIncreasing(node) ==
    \A n \in Nodes(node) :
        \A i \in 1..(Len(n.keys) - 1) : n.keys[i] < n.keys[i + 1]

\* The child indices that the descent of search and delete follows from node
\* to the first node holding key (to a leaf when there is none).
RECURSIVE search_path(_, _)
search_path(node, key) ==
    LET index == scan_gt(node.keys, Len(node.keys) - 1, key)
        u_index == index + 1
    IN  IF index >= 0 /\ At(node.keys, u_index - 1) = key THEN <<>>
        ELSE IF is_leaf(node) THEN <<>>
        ELSE <<u_index>> \o search_path(At(node.children, u_index), key)

\* The node that path leads to from node; None when there is none.
RECURSIVE node_at(_, _)
node_at(node, path) ==
    IF path = <<>> THEN Some(node)
    ELSE IF Head(path) >= Len(node.children) THEN None
    ELSE node_at(At(node.children, Head(path)), Tail(path))

\* The number of levels of the tree under node (1 for a leaf).
RECURSIVE Height(_)
Height(node) ==
    1 + MaxSeq([i \in 1..Len(node.children) |-> Height(node.children[i])])

-----------------------------------------------------------------------------
\* BTree::new: [panic, root, props]. When it panics no tree is returned.
BTree_new(branch_factor, overflow_checks) ==
    LET degree == 2 * branch_factor
    IN  IF \/ Node_new_panics(degree, None, None, overflow_checks)
           \/ BTreeProps_new_panics(degree, overflow_checks)
        THEN [panic |-> TRUE, root |-> None, props |-> None]
        ELSE [panic |-> FALSE,
              root |-> Node_new(degree, None, None, None, 0),
              props |-> BTreeProps_new(degree)]

\* The state after BTree::new(branch_factor), in a build with or without
\* overflow checks; op.key holds branch_factor.
New(branch_factor, overflow_checks) ==
    LET t == BTree_new(branch_factor, overflow_checks)
    IN  /\ root = t.root
        /\ props = t.props
        /\ op = [name |-> "new", key |-> branch_factor]
        /\ ret = IF t.panic THEN "panic" ELSE "unit"
        /\ present = {}
        /\ dup = FALSE

Init ==
    \E branch_factor \in BranchFactors, overflow_checks \in BOOLEAN :
        New(branch_factor, overflow_checks)

\* Construction with any branch_factor, 0 included.
InitAny ==
    \E branch_factor \in AnyBranchFactors, overflow_checks \in BOOLEAN :
        New(branch_factor, overflow_checks)

Running == ret # "panic"

Insert(key) ==
    /\ Running
    /\ Size(root) < MaxSize
    /\ is_maxed_out(props, root) => Height(root) < MaxHeight
    /\ root' = BTree_insert(props, root, key)
    /\ op' = [name |-> "insert", key |-> key]
    /\ ret' = "unit"
    /\ present' = present \cup {key}
    /\ dup' = (dup \/ key \in present)
    /\ UNCHANGED props

Search(key) ==
    /\ Running
    /\ op' = [name |-> "search", key |-> key]
    /\ ret' = IF BTree_search(root, key) THEN "true" ELSE "false"
    /\ UNCHANGED <<root, props, present, dup>>

Delete(key) ==
    /\ Running
    /\ LET d == BTree_delete(props, root, key)
       IN  /\ root' = d.root
           /\ ret' = d.ret
    /\ op' = [name |-> "delete", key |-> key]
    /\ present' = present \ {key}
    /\ UNCHANGED <<props, dup>>

Next ==
    \/ \E key \in Keys : Insert(key)
    \/ \E key \in Keys : Search(key)
    \/ \E key \in Keys : Delete(key)

Spec == Init /\ [][Next]_vars

\* Inserts of keys not yet inserted, and searches: no delete.
InsertFresh(key) == key \notin present /\ Insert(key)

NextInsertOnly ==
    \/ \E key \in Keys : InsertFresh(key)
    \/ \E key \in Keys : Search(key)

SpecInsertOnly == Init /\ [][NextInsertOnly]_vars

\* Inserts of keys not present, searches and deletes.
NextDistinct ==
    \/ \E key \in Keys : InsertFresh(key)
    \/ \E key \in Keys : Search(key)
    \/ \E key \in Keys : Delete(key)

SpecDistinct == Init /\ [][NextDistinct]_vars

\* Every call sequence after a construction with any branch_factor.
SpecAny == InitAny /\ [][Next]_vars

-----------------------------------------------------------------------------
\* C1: when no key is inserted while present, every call returns and
\* search(k) is then true exactly for the keys inserted and not deleted since.
C1_SetEquivalence ==
    /\ Running
    /\ \A k \in Keys : BTree_search(root, k) <=> k \in present

\* C2: after inserts of distinct keys only, search(k) is true for every
\* inserted k and false for every other k (also as the result of a search call).
C2_RoundTrip ==
    /\ \A k \in Keys : BTree_search(root, k) <=> k \in present
    /\ op.name = "search" => (ret = "true" <=> op.key \in present)

C2_Witness ==
    /\ op.name = "search"
    /\ ret = "true"
    /\ Height(root) >= 3
    /\ Cardinality(present) >= 3

\* C3: every insert, search and delete call returns; none ends in a panic.
C3_Totality == ret # "panic"

\* C4: delete(k) returns true if and only if k is stored in the tree when
\* the call starts.
C4_DeleteReturn ==
    [][op'.name = "delete" => (ret' = "true" <=> op'.key \in KeySet(root))]_vars

\* C5: delete(k) of a key that is not stored returns false and leaves the
\* whole tree as it was.
C5_DeleteAbsentFrame ==
    [][(op'.name = "delete" /\ op'.key \notin KeySet(root))
          => (ret' = "false" /\ root' = root)]_vars

C5_Witness ==
    /\ op.name = "delete"
    /\ ret = "false"
    /\ op.key \notin KeySet(root)
    /\ Height(root) >= 2
    /\ Size(root) >= 2

\* C6: every node other than the root holds at least min_keys keys.
C6_MinOccupancy ==
    \A n \in NonRootNodes(root) : Len(n.keys) >= props.min_keys

\* C7: no node, the root included, holds more than max_keys keys.
C7_MaxOccupancy ==
    \A n \in Nodes(root) : Len(n.keys) <= props.max_keys

C7_Witness ==
    /\ op.name = "insert"
    /\ Height(root) >= 2
    /\ props.max_keys >= 3
    /\ \E n \in NonRootNodes(root) : Len(n.keys) = props.max_keys

\* C8: on distinct keys, the keys of every node are strictly increasing and
\* every key under children[i] is less than keys[i], which is less than every
\* key under children[i+1].
C8_Ordering == Ordered(root)

C8_Witness ==
    /\ op.name = "delete"
    /\ ret = "true"
    /\ Height(root) >= 2
    /\ Len(root.keys) >= 1
    /\ Size(root) >= 3

\* C9: all leaves of the tree are at the same depth.
C9_HeightBalance == Cardinality(LeafDepths(root, 0)) = 1

C9_Witness ==
    /\ op.name = "insert"
    /\ Height(root) >= 3
    /\ Cardinality(LeafDepths(root, 0)) = 1

\* C10: every node is a leaf or has exactly keys.len() + 1 children.
C10_ChildCount ==
    \A n \in Nodes(root) : is_leaf(n) \/ Len(n.children) = Len(n.keys) + 1

C10_Witness ==
    /\ op.name \in {"insert", "delete"}
    /\ \E n \in NonRootNodes(root) :
          ~is_leaf(n) /\ Len(n.children) = Len(n.keys) + 1

C12_RootCollapse ==
    [][op'.name = "delete" =>
          LET d == delete_descent(props, root, op'.key)
          IN  (d.found /\ ~d.panic /\ Len(d.node.keys) = 0) =>
                 /\ ret' = "true"
                 /\ IF is_leaf(d.node)
                    THEN root' = d.node
                    ELSE /\ Len(d.node.children) = 1
                         /\ root' = At(d.node.children, 0)
                         /\ Height(root') = Height(root) - 1]_vars

\* C13: insert raises the height by one exactly when the root holds
\* max_keys keys at the call; the new root then holds, before the descent,
\* the old root's middle key alone and two children, the old root first;
\* any other insert leaves the height as it was.
C13_RootGrowth ==
    [][op'.name = "insert" =>
          IF is_maxed_out(props, root)
          THEN /\ Height(root') = Height(root) + 1
               /\ LET g == grow_root(props, root)
                  IN  /\ g.keys = <<At(root.keys, props.mid_key_index)>>
                      /\ Len(g.children) = 2
                      /\ At(g.children, 0).keys
                            = SplitKeep(root.keys, props.mid_key_index)
                      /\ Height(g) = Height(root) + 1
                      /\ root'.keys = g.keys
          ELSE Height(root') = Height(root)]_vars

\* With max_keys = 1 an internal root always holds one key, so the insert
\* that made this tree found the root maxed out.
C13_Witness ==
    /\ op.name = "insert"
    /\ Height(root) >= 2
    /\ Len(root.keys) = 1
    /\ Len(root.children) = 2
    /\ props.max_keys = 1

\* C14: a delete(k) that finds k in an internal node returns true and leaves
\* that node with as many keys and children as before, k overwritten by the
\* last key of the rightmost leaf under its left child when that leaf holds
\* more than min_keys keys and else by the first key of the leftmost leaf
\* under its right child; the keys of the tree are then those before, less k.
C14_Substitution ==
    [][op'.name = "delete" =>
          LET key == op'.key
              path == search_path(root, key)
              node == node_at(root, path)[1]
              key_index == position(node.keys, key)
          IN  (key_index >= 0 /\ ~is_leaf(node)) =>
                 LET left == leaf_left(At(node.children, key_index))
                     right == leaf_right(At(node.children, key_index + 1))
                     after == node_at(root', path)
                 IN  /\ ret' = "true"
                     /\ after # None
                     /\ Len(after[1].children) = Len(node.children)
                     /\ IF Len(left.keys) > props.min_keys
                        THEN after[1].keys =
                               [node.keys EXCEPT ![key_index + 1] =
                                   At(left.keys, Len(left.keys) - 1)]
                        ELSE /\ Len(right.keys) > 0
                             /\ after[1].keys =
                                  [node.keys EXCEPT ![key_index + 1] =
                                      At(right.keys, 0)]
                     /\ KeySet(root') = KeySet(root) \ {key}]_vars

\* The keys and the shape of the tree under node, without the back-references.
RECURSIVE C15_Shape(_)
C15_Shape(node) ==
    [keys |-> node.keys,
     children |-> [i \in 1..Len(node.children) |-> C15_Shape(node.children[i])]]

\* The first applicable move for the child at index i of parent, in the order
\* of the claim.
C15_FirstMove(self, parent, i) ==
    LET has_right == i + 1 < Len(parent.children)
        has_left == i > 0
    IN  IF has_right /\ Len(At(parent.children, i + 1).keys) > self.min_keys
        THEN "donate_right"
        ELSE IF has_left /\ Len(At(parent.children, i - 1).keys) > self.min_keys
        THEN "donate_left"
        ELSE IF has_right THEN "merge_right"
        ELSE "merge_left"

\* A donation as the claim states it: one key goes from the sibling to the
\* separator in parent, and the separator to the child at index i (with the
\* sibling's nearest child when the nodes are internal).
C15_Donated(parent, i, move) ==
    LET node == At(parent.children, i)
        j == IF move = "donate_right" THEN i + 1 ELSE i - 1
        sep == IF move = "donate_right" THEN i ELSE i - 1
        sibling == At(parent.children, j)
        from_right == move = "donate_right"
        sibling1 ==
            [sibling EXCEPT
                !.keys = IF from_right THEN Tail(@) ELSE SplitKeep(@, Len(@) - 1),
                !.children = IF is_leaf(sibling) THEN @
                             ELSE IF from_right THEN Tail(@)
                             ELSE SplitKeep(@, Len(@) - 1)]
        node1 ==
            [node EXCEPT
                !.keys = IF from_right THEN Append(@, At(parent.keys, sep))
                         ELSE <<At(parent.keys, sep)>> \o @,
                !.children = IF is_leaf(sibling) THEN @
                             ELSE IF from_right THEN Append(@, Head(sibling.children))
                             ELSE <<sibling.children[Len(sibling.children)]>> \o @]
    IN  [parent EXCEPT
            !.keys[sep + 1] = IF from_right THEN Head(sibling.keys)
                              ELSE sibling.keys[Len(sibling.keys)],
            !.children[i + 1] = node1,
            !.children[j + 1] = sibling1]

\* C15: a delete that takes a key from a leaf other than the root and leaves
\* it with fewer than min_keys keys returns true, and the leaf's parent is
\* then as the first applicable move leaves it: donation from the right
\* sibling, else from the left one, else a merge with the right sibling, else
\* with the left one. A donation changes no count; a merge takes one key
\* and one child from the parent (checked where the parent then needs no
\* move itself).
C15_RebalancingOrder ==
    [][op'.name = "delete" =>
          LET key == op'.key
              path == search_path(root, key)
              leaf == node_at(root, path)[1]
          IN  (/\ path # <<>>
               /\ is_leaf(leaf)
               /\ position(leaf.keys, key) >= 0
               /\ Len(leaf.keys) - 1 < props.min_keys) =>
                 LET ppath == SubSeq(path, 1, Len(path) - 1)
                     i == path[Len(path)]
                     parent == node_at(root, ppath)[1]
                     parent1 == [parent EXCEPT !.children[i + 1] =
                                    remove_key_from_node(leaf, key)]
                     move == C15_FirstMove(props, parent1, i)
                     after == node_at(root', ppath)
                     settled == IF ppath = <<>>
                                THEN Len(parent.keys) >= 2
                                ELSE Len(parent.keys) - 1 >= props.min_keys
                 IN  /\ ret' = "true"
                     /\ move \in {"donate_right", "donate_left"} =>
                          /\ after # None
                          /\ C15_Shape(after[1])
                               = C15_Shape(C15_Donated(parent1, i, move))
                     /\ (move \in {"merge_right", "merge_left"} /\ settled) =>
                          /\ after # None
                          /\ Len(after[1].keys) = Len(parent.keys) - 1
                          /\ Len(after[1].children) = Len(parent.children) - 1]_vars

\* C16: insert(k) of a key that is stored adds no second copy: the number of
\* stored keys stays, the keys of every node stay strictly increasing, and
\* one delete(k) then makes search(k) false.
C16_DuplicateInsert ==
    [][(op'.name = "insert" /\ op'.key \in KeySet(root)) =>
          /\ Size(root') = Size(root)
          /\ StrictlyIncreasing(root')
          /\ LET d == BTree_delete(props, root', op'.key)
             IN  d.ret = "true" /\ ~BTree_search(d.root, op'.key)]_vars

\* C17: the root has no parent back-reference and is the only node without
\* one; every other node refers to the node that holds it.
C17_ParentBackReference == is_root(root) /\ BackReferenced(root)

\* C18: the parent_index of every node other than the root is its place
\* among the children of its parent.
C18_SiblingIndex == Indexed(root)

====
